---- MODULE Spec2Model ----
(***************************************************************************)
(* Model of svgager_native: convert_svg_to_image (converter.rs) and its    *)
(* helpers parse_hex_color, encode_image and rgba_to_rgb.                   *)
(*                                                                         *)
(* Text is a sequence of characters; a character is a one-element string,  *)
(* except the two non-ASCII characters "U+00E9" (2 bytes in UTF-8) and     *)
(* "U+20AC" (3 bytes).  Option<T> is a sequence of length 0 (None) or 1.   *)
(***************************************************************************)
EXTENDS Integers, Sequences, FiniteSets, TLC

\* ----------------------------------------------------------------- bounds
MaxLen == 3        \* longest svg_data text of the substitution cases
MaxRepl == 2       \* longest replacements list
MaxDim == 11       \* largest explicit width / height of the dimension cases

None == <<>>
Some(x) == <<x>>

\* ------------------------------------------------------------ str helpers
RECURSIVE Utf8Len(_)
\* str::len(): the length in bytes of the UTF-8 encoding
Utf8Len(s) ==
  IF s = <<>> THEN 0
  ELSE (IF Head(s) = "U+00E9" THEN 2 ELSE IF Head(s) = "U+20AC" THEN 3 ELSE 1)
       + Utf8Len(Tail(s))

\* str::is_char_boundary(i)
IsCharBoundary(s, i) ==
  \E k \in 0..Len(s) : Utf8Len(SubSeq(s, 1, k)) = i

\* &s[a..b] for byte offsets a <= b that are both character boundaries
ByteSlice(s, a, b) ==
  LET ka == CHOOSE k \in 0..Len(s) : Utf8Len(SubSeq(s, 1, k)) = a
      kb == CHOOSE k \in 0..Len(s) : Utf8Len(SubSeq(s, 1, k)) = b
  IN SubSeq(s, ka + 1, kb)

RECURSIVE TrimStartMatches(_, _)
\* str::trim_start_matches(c): removes every leading repetition of c
TrimStartMatches(s, c) ==
  IF s # <<>> /\ Head(s) = c THEN TrimStartMatches(Tail(s), c) ELSE s

UpperOf ==
  [c \in {"p", "n", "g", "j", "e", "i", "f", "w", "b", "m"} |->
     CASE c = "p" -> "P" [] c = "n" -> "N" [] c = "g" -> "G" [] c = "j" -> "J"
       [] c = "e" -> "E" [] c = "i" -> "I" [] c = "f" -> "F" [] c = "w" -> "W"
       [] c = "b" -> "B" [] c = "m" -> "M"]

\* char::to_lowercase on the characters of the model
LowerChar(c) ==
  IF \E l \in DOMAIN UpperOf : UpperOf[l] = c
  THEN CHOOSE l \in DOMAIN UpperOf : UpperOf[l] = c
  ELSE c

\* str::to_lowercase()
ToLowercase(s) == [i \in 1..Len(s) |-> LowerChar(s[i])]

IsPrefix(p, s) == Len(p) <= Len(s) /\ SubSeq(s, 1, Len(p)) = p

RECURSIVE Interleave(_, _)
Interleave(s, to) ==
  IF s = <<>> THEN <<>> ELSE <<Head(s)>> \o to \o Interleave(Tail(s), to)

RECURSIVE ReplaceFrom(_, _, _)
ReplaceFrom(s, from, to) ==
  IF s = <<>> THEN <<>>
  ELSE IF IsPrefix(from, s)
       THEN to \o ReplaceFrom(SubSeq(s, Len(from) + 1, Len(s)), from, to)
       ELSE <<Head(s)>> \o ReplaceFrom(Tail(s), from, to)

\* str::replace(from, to): every non-overlapping match, found left to right;
\* the empty pattern matches before every character and at the end
StrReplace(s, from, to) ==
  IF from = <<>> THEN to \o Interleave(s, to) ELSE ReplaceFrom(s, from, to)

\* ------------------------------------------------------------ hex colours
HexLower == <<"0","1","2","3","4","5","6","7","8","9","a","b","c","d","e","f">>
HexUpper == <<"0","1","2","3","4","5","6","7","8","9","A","B","C","D","E","F">>

IsHexDigit(c) == \E i \in 1..16 : HexLower[i] = c \/ HexUpper[i] = c

\* char::to_digit(16)
HexVal(c) == (CHOOSE i \in 1..16 : HexLower[i] = c \/ HexUpper[i] = c) - 1

RECURSIVE DigitsValue(_, _)
DigitsValue(digits, acc) ==
  IF digits = <<>> THEN acc
  ELSE DigitsValue(Tail(digits), acc * 16 + HexVal(Head(digits)))

\* u8::from_str_radix(src, 16): Some(value) or None for every ParseIntError
FromStrRadixU8(src) ==
  IF src = <<>> THEN None
  ELSE IF Len(src) = 1 /\ Head(src) \in {"+", "-"} THEN None
  ELSE LET digits == IF Head(src) = "+" THEN Tail(src) ELSE src
       IN IF \E i \in 1..Len(digits) : ~IsHexDigit(digits[i]) THEN None
          ELSE IF DigitsValue(digits, 0) > 255 THEN None
          ELSE Some(DigitsValue(digits, 0))

Err(kind, detail) == [tag |-> "Err", ok |-> None, kind |-> kind, detail |-> detail]
Ok(v) == [tag |-> "Ok", ok |-> Some(v), kind |-> "", detail |-> None]
Panic(msg) == [tag |-> "Panic", ok |-> None, kind |-> msg, detail |-> None]
Pending == [tag |-> "Pending", ok |-> None, kind |-> "", detail |-> None]

\* one colour component: &hex[a..b] then from_str_radix, with `?`
Component(hex, a, b, name) ==
  IF ~(IsCharBoundary(hex, a) /\ IsCharBoundary(hex, b))
  THEN Panic("byte index is not a char boundary")
  ELSE IF FromStrRadixU8(ByteSlice(hex, a, b)) = None
       THEN Err("InvalidHexColorComponent", <<name>>)
       ELSE Ok(FromStrRadixU8(ByteSlice(hex, a, b))[1])

parse_hex_color(hex0) ==
  LET hex == TrimStartMatches(hex0, "#")
      r == Component(hex, 0, 2, "red")
      g == Component(hex, 2, 4, "green")
      b == Component(hex, 4, 6, "blue")
  IN IF Utf8Len(hex) # 6 THEN Err("InvalidHexColorLength", <<Utf8Len(hex)>>)
     ELSE IF r.tag # "Ok" THEN r
     ELSE IF g.tag # "Ok" THEN g
     ELSE IF b.tag # "Ok" THEN b
     ELSE Ok(<<r.ok[1], g.ok[1], b.ok[1]>>)


\* ------------------------------------------------- f32 (IEEE-754 binary32)
\* A finite non-negative f32 is [m, e] with value m * 2^e, and m = 0 or
\* 2^23 <= m < 2^24.  Every operation rounds to nearest, ties to even.
\* Operands of the model stay far from the subnormal and overflow ranges.
RECURSIVE Pow2(_)
Pow2(n) == IF n = 0 THEN 1 ELSE 2 * Pow2(n - 1)

F32Zero == [m |-> 0, e |-> 0]

RECURSIVE Normalise(_, _, _)
\* scales num or den by powers of two until den <= num < 2 * den
Normalise(num, den, k) ==
  IF num < den THEN Normalise(2 * num, den, k - 1)
  ELSE IF num >= 2 * den THEN Normalise(num, 2 * den, k + 1)
  ELSE [n |-> num, d |-> den, k |-> k]

RECURSIVE QuotientBits(_, _, _, _)
\* long division: `count` more bits of the quotient after mantissa m
QuotientBits(r, den, m, count) ==
  IF count = 0 THEN [m |-> m, r |-> r]
  ELSE IF 2 * r >= den THEN QuotientBits(2 * r - den, den, 2 * m + 1, count - 1)
       ELSE QuotientBits(2 * r, den, 2 * m, count - 1)

\* the f32 nearest to num / den (num >= 0, den > 0)
RoundQuotient(num, den) ==
  IF num = 0 THEN F32Zero
  ELSE LET nm == Normalise(num, den, 0)
           q == QuotientBits(nm.n - nm.d, nm.d, 1, 23)
           up == 2 * q.r > nm.d \/ (2 * q.r = nm.d /\ q.m % 2 = 1)
           m == IF up THEN q.m + 1 ELSE q.m
       IN IF m = Pow2(24) THEN [m |-> Pow2(23), e |-> nm.k - 22]
          ELSE [m |-> m, e |-> nm.k - 23]

\* `w as f32` for a u32 w
U32ToF32(w) == RoundQuotient(w, 1)

RECURSIVE OddPart(_, _)
OddPart(m, s) == IF m % 2 = 0 THEN OddPart(m \div 2, s + 1) ELSE [o |-> m, s |-> s]

\* a / b in f32 (b > 0)
DivF32(a, b) ==
  IF a.m = 0 THEN F32Zero
  ELSE LET q == RoundQuotient(a.m, b.m)
       IN [m |-> q.m, e |-> q.e + a.e - b.e]

\* a * b in f32; the odd parts of the two mantissas multiply below 2^31
MulF32(a, b) ==
  IF a.m = 0 \/ b.m = 0 THEN F32Zero
  ELSE LET oa == OddPart(a.m, 0)
           ob == OddPart(b.m, 0)
           p == RoundQuotient(oa.o * ob.o, 1)
       IN [m |-> p.m, e |-> p.e + oa.s + ob.s + a.e + b.e]

\* `x as u32`: truncation toward zero (saturation at u32::MAX lies beyond
\* the operands of the model, whose values stay below 2^31)
F32ToU32(x) ==
  IF x.m = 0 THEN 0
  ELSE IF x.e >= 0 THEN x.m * Pow2(x.e)
  ELSE IF -x.e >= 24 THEN 0
  ELSE x.m \div Pow2(-x.e)

\* --------------------------------------------------------------- the call
\* One call of convert_svg_to_image: its arguments, its locals, the stage it
\* is at (pc), the stages it has run (stages) and what it returned (result).
\* doc_size and doc_content are the document the markup describes: what the
\* SVG parser reports for it once the markup is well-formed.  A size is in
\* half pixels (an f32 holds every such value exactly).
\* `call` is the call under study; `twin` is a second call, advanced in lock
\* step, whose arguments differ from it at most in background_color or in
\* the spelling of format.
VARIABLES call, twin

vars == <<call, twin>>

NewCall(svg_data, format, width, height, background_color, replacements, doc_size, doc_content) ==
  [svg_data |-> svg_data, format |-> format, width |-> width,
   height |-> height, background_color |-> background_color,
   replacements |-> replacements,
   doc_size |-> doc_size, doc_content |-> doc_content,
   processed_svg |-> svg_data, repl_idx |-> 0,
   tree |-> None, out_width |-> 0, out_height |-> 0, pixmap |-> None,
   is_png |-> FALSE, stages |-> <<>>, pc |-> "substitute", result |-> Pending]

Finish(c, stage, res) ==
  [c EXCEPT !.stages = Append(@, stage),
            !.pc = IF res.tag = "Panic" THEN "panicked" ELSE "done",
            !.result = res]

\* SubstituteStep with every pair applied to the original text
SubstituteStep_OnOriginal(c) ==
  IF c.repl_idx < Len(c.replacements)
  THEN LET pair == c.replacements[c.repl_idx + 1]
       IN [c EXCEPT !.processed_svg = StrReplace(c.svg_data, pair[1], pair[2]),
                    !.repl_idx = @ + 1]
  ELSE [c EXCEPT !.stages = Append(@, "substitution"), !.pc = "parse"]

\* lines 16-19: one iteration of the loop over replacements, or its exit
SubstituteStep(c) ==
  IF c.repl_idx < Len(c.replacements)
  THEN LET pair == c.replacements[c.repl_idx + 1]
       IN [c EXCEPT !.processed_svg = StrReplace(@, pair[1], pair[2]),
                    !.repl_idx = @ + 1]
  ELSE [c EXCEPT !.stages = Append(@, "substitution"), !.pc = "parse"]

\* The verdict of usvg::Tree::from_str: markup is a sequence of fragments,
\* "X" stands for a fragment that is not well-formed XML, and the empty text
\* has no root element
WellFormed(text) == text # <<>> /\ \A i \in 1..Len(text) : text[i] # "X"

\* lines 22-24
ParseStep(c) ==
  IF WellFormed(c.processed_svg)
  THEN [c EXCEPT !.tree = Some([size |-> c.doc_size, content |-> c.doc_content]),
                 !.stages = Append(@, "parse"), !.pc = "dimensions"]
  ELSE Finish(c, "parse", Err("ParseError", c.processed_svg))

SizeF32(halves) == RoundQuotient(halves, 2)

\* ResolveDimensions with the two aspect ratios exchanged
ResolveDimensions_InverseRatio(width, height, svg_size) ==
  LET sw == SizeF32(svg_size[1])
      sh == SizeF32(svg_size[2])
  IN IF width # None /\ height # None THEN <<width[1], height[1]>>
     ELSE IF width # None
          THEN <<width[1], F32ToU32(MulF32(U32ToF32(width[1]), DivF32(sw, sh)))>>
     ELSE IF height # None
          THEN <<F32ToU32(MulF32(U32ToF32(height[1]), DivF32(sh, sw))), height[1]>>
     ELSE <<F32ToU32(sw), F32ToU32(sh)>>

\* lines 28-39: the match on (width, height)
ResolveDimensions(width, height, svg_size) ==
  LET sw == SizeF32(svg_size[1])
      sh == SizeF32(svg_size[2])
  IN IF width # None /\ height # None THEN <<width[1], height[1]>>
     ELSE IF width # None
          THEN <<width[1], F32ToU32(MulF32(U32ToF32(width[1]), DivF32(sh, sw)))>>
     ELSE IF height # None
          THEN <<F32ToU32(MulF32(U32ToF32(height[1]), DivF32(sw, sh))), height[1]>>
     ELSE <<F32ToU32(sw), F32ToU32(sh)>>

DimensionsStep(c) ==
  LET d == ResolveDimensions(c.width, c.height, c.tree[1].size)
  IN [c EXCEPT !.out_width = d[1], !.out_height = d[2],
               !.stages = Append(@, "dimensions"), !.pc = "allocate"]

\* PixmapNew that hands out a surface of no pixels
PixmapNew_AllowsEmpty(w, h) ==
  Some([width |-> w, height |-> h, data |-> [i \in 1..(w * h * 4) |-> 0]])

\* tiny_skia::Pixmap::new: None for a zero width or height, else a surface
\* of width * height * 4 zero bytes
PixmapNew(w, h) ==
  IF w = 0 \/ h = 0 THEN None
  ELSE Some([width |-> w, height |-> h, data |-> [i \in 1..(w * h * 4) |-> 0]])

\* lines 42-43
AllocateStep(c) ==
  IF PixmapNew(c.out_width, c.out_height) = None
  THEN Finish(c, "allocate", Err("Failed to create pixmap", None))
  ELSE [c EXCEPT !.pixmap = PixmapNew(c.out_width, c.out_height),
                 !.stages = Append(@, "allocate"), !.pc = "background"]

\* Pixmap::fill with Color::from_rgba8(r, g, b, a)
Fill(pm, rgba) == [pm EXCEPT !.data = [i \in 1..Len(pm.data) |-> rgba[((i - 1) % 4) + 1]]]

\* IsPng without the case fold
IsPng_CaseSensitive(format) == format = <<"p", "n", "g">>

IsPng(format) == ToLowercase(format) = <<"p", "n", "g">>

\* BackgroundStep that fills only when the caller gave a colour
BackgroundStep_NoDefaultFill(c) ==
  IF IsPng(c.format)
  THEN [c EXCEPT !.is_png = TRUE, !.pc = "render"]
  ELSE IF c.background_color = None
  THEN [c EXCEPT !.stages = Append(@, "background"), !.pc = "render"]
  ELSE LET rgb == parse_hex_color(c.background_color[1])
       IN IF rgb.tag # "Ok" THEN Finish(c, "background", rgb)
          ELSE [c EXCEPT !.pixmap = Some(Fill(c.pixmap[1],
                                  <<rgb.ok[1][1], rgb.ok[1][2], rgb.ok[1][3], 255>>)),
                         !.stages = Append(@, "background"), !.pc = "render"]

\* BackgroundStep that validates the colour before it looks at the format
BackgroundStep_ParsesFirst(c) ==
  LET bg_color == IF c.background_color = None
                  THEN <<"F", "F", "F", "F", "F", "F">>
                  ELSE c.background_color[1]
      rgb == parse_hex_color(bg_color)
  IN IF rgb.tag # "Ok" THEN Finish(c, "background", rgb)
     ELSE IF IsPng(c.format)
     THEN [c EXCEPT !.is_png = TRUE, !.pc = "render"]
     ELSE [c EXCEPT !.pixmap = Some(Fill(c.pixmap[1],
                             <<rgb.ok[1][1], rgb.ok[1][2], rgb.ok[1][3], 255>>)),
                    !.stages = Append(@, "background"), !.pc = "render"]

\* lines 46-51
BackgroundStep(c) ==
  IF IsPng(c.format)
  THEN [c EXCEPT !.is_png = TRUE, !.pc = "render"]
  ELSE LET bg_color == IF c.background_color = None
                       THEN <<"F", "F", "F", "F", "F", "F">>
                       ELSE c.background_color[1]
           rgb == parse_hex_color(bg_color)
       IN IF rgb.tag # "Ok" THEN Finish(c, "background", rgb)
          ELSE [c EXCEPT !.pixmap = Some(Fill(c.pixmap[1],
                                  <<rgb.ok[1][1], rgb.ok[1][2], rgb.ok[1][3], 255>>)),
                         !.stages = Append(@, "background"), !.pc = "render"]

\* resvg::render: the content is drawn over what the surface holds.  A
\* document is empty (fully transparent) or one opaque rectangle of a colour
\* covering its whole viewport, which the scale transform of lines 54-57
\* maps onto the whole surface.
Render(content, pm) ==
  IF content = None THEN pm
  ELSE Fill(pm, <<content[1][1], content[1][2], content[1][3], 255>>)

\* lines 54-59
RenderStep(c) ==
  [c EXCEPT !.pixmap = Some(Render(c.tree[1].content, c.pixmap[1])),
            !.stages = Append(@, "render"), !.pc = "encode"]

\* lines 140-151: chunks(4), indexing chunk[0..2] of each; a last chunk of
\* one or two bytes is an index out of bounds
rgba_to_rgb(rgba_data) ==
  IF Len(rgba_data) % 4 \in {1, 2} THEN Panic("index out of bounds")
  ELSE Ok([i \in 1..(((Len(rgba_data) + 3) \div 4) * 3) |->
             rgba_data[((i - 1) \div 3) * 4 + ((i - 1) % 3) + 1]])

Encoded(codec, color, w, h, data) ==
  [codec |-> codec, color |-> color, width |-> w, height |-> h, data |-> data]

\* ImageEncoder::write_image asserts the buffer length
WriteImage(codec, color, channels, w, h, data) ==
  IF Len(data) # w * h * channels THEN Panic("Invalid buffer length")
  ELSE Ok(Encoded(codec, color, w, h, data))

\* ImageBuffer::from_raw is None for a buffer that is too short
FromRaw(codec, w, h, data) ==
  IF Len(data) < w * h * 4 THEN Err("Failed to create image buffer", None)
  ELSE Ok(Encoded(codec, "Rgba8", w, h, SubSeq(data, 1, w * h * 4)))

\* the branch of the match of line 96
EncoderBranch(format) ==
  LET f == ToLowercase(format)
  IN IF f = <<"p", "n", "g">> THEN "png"
     ELSE IF f = <<"j", "p", "g">> \/ f = <<"j", "p", "e", "g">> THEN "jpeg"
     ELSE IF f = <<"g", "i", "f">> THEN "gif"
     ELSE IF f = <<"w", "e", "b", "p">> THEN "webp"
     ELSE "unsupported"

\* lines 86-138
encode_image(data, width, height, format, has_alpha) ==
  LET branch == EncoderBranch(format)
  IN IF branch = "png" THEN WriteImage("png", "Rgba8", 4, width, height, data)
     ELSE IF branch = "jpeg"
          THEN IF rgba_to_rgb(data).tag # "Ok" THEN rgba_to_rgb(data)
               ELSE WriteImage("jpeg90", "Rgb8", 3, width, height, rgba_to_rgb(data).ok[1])
     ELSE IF branch = "gif" THEN FromRaw("gif", width, height, data)
     ELSE IF branch = "webp" THEN FromRaw("webp", width, height, data)
     ELSE Err("Unsupported format", format)

\* lines 62-63
EncodeStep(c) ==
  Finish(c, "encode",
         encode_image(c.pixmap[1].data, c.out_width, c.out_height, c.format, c.is_png))

Ended(c) == c.pc \in {"done", "panicked"}

\* the next step of a call, wherever it is
Advance(c) ==
  CASE c.pc = "substitute" -> SubstituteStep(c)
    [] c.pc = "parse" -> ParseStep(c)
    [] c.pc = "dimensions" -> DimensionsStep(c)
    [] c.pc = "allocate" -> AllocateStep(c)
    [] c.pc = "background" -> BackgroundStep(c)
    [] c.pc = "render" -> RenderStep(c)
    [] c.pc = "encode" -> EncodeStep(c)
    [] OTHER -> c

\* ------------------------------------------------------------- the inputs
RECURSIVE SeqsUpTo(_, _)
\* the sequences over S of length at most n
SeqsUpTo(S, n) ==
  IF n = 0 THEN {<<>>}
  ELSE SeqsUpTo(S, n - 1) \cup {Append(p, x) : p \in SeqsUpTo(S, n - 1), x \in S}

UpperChar(c) == IF c \in DOMAIN UpperOf THEN UpperOf[c] ELSE c

RECURSIVE Spellings(_)
\* every upper/lower-case spelling of a lower-case word
Spellings(word) ==
  IF word = <<>> THEN {<<>>}
  ELSE {<<c>> \o r : c \in {Head(word), UpperChar(Head(word))},
                     r \in Spellings(Tail(word))}

FormatNames ==
  {<<"p","n","g">>, <<"j","p","g">>, <<"j","p","e","g">>, <<"g","i","f">>,
   <<"w","e","b","p">>}

OtherFormats ==
  Spellings(<<"b","m","p">>) \cup {<<>>, <<"p","n">>, <<"p","n","g","g">>}

Formats == UNION {Spellings(n) : n \in FormatNames} \cup OtherFormats

Texts ==
  SeqsUpTo({"A", "B"}, MaxLen)
    \cup {<<"A"," ","B">>, <<"X">>, <<"A","X">>, <<"X","B","X">>}

ReplPairs ==
  {<< <<"A">>, <<"B">> >>, << <<"B">>, <<"C">> >>, << <<"A","A">>, <<"B">> >>,
   << <<"X">>, <<"A">> >>, << <<"B">>, <<"X">> >>, << <<>>, <<" ">> >>}

ReplLists == SeqsUpTo(ReplPairs, MaxRepl)

\* colour strings: up to two '#', three pieces, an optional extra digit
ColorPieces ==
  {<<"F","F">>, <<"0","0">>, <<"a","7">>, <<"Z","Z">>, <<"+","F">>, <<"-","1">>,
   <<"1">>, <<"#","0">>, <<"U+00E9">>, <<"0","U+00E9">>}

ColorStrings ==
  {h \o p1 \o p2 \o p3 \o x :
     h \in {<<>>, <<"#">>, <<"#","#">>},
     p1 \in ColorPieces, p2 \in ColorPieces, p3 \in ColorPieces,
     x \in {<<>>, <<"0">>}}

Red == <<"#","F","F","0","0","0","0">>
BadColor == <<"Z","Z","0","0","0","0">>
SplitColor == <<"0","U+00E9","0","0","0">>

SvgSizes ==
  {<<2, 2>>, <<1, 4>>, <<4, 1>>, <<4, 2>>, <<3, 4>>, <<22, 26>>, <<26, 22>>,
   <<1, 1>>}

OptDims == {None} \cup {Some(d) : d \in 0..MaxDim}

Blue == <<0, 0, 255>>

Pair(svg_data, format, alt_format, width, height, background_color, alt_color, replacements, doc_size, doc_content) ==
  /\ call = NewCall(svg_data, format, width, height, background_color,
                    replacements, doc_size, doc_content)
  /\ twin = NewCall(svg_data, alt_format, width, height, alt_color,
                    replacements, doc_size, doc_content)

\* templates and substitution lists
InitText ==
  \E t \in Texts, r \in ReplLists, f \in {<<"p","n","g">>, <<"j","p","g">>} :
    Pair(t, f, f, None, None, None, None, r, <<4, 2>>, None)

\* background colours
InitColor ==
  \E b \in {None} \cup {Some(s) : s \in ColorStrings} :
    Pair(<<"A">>, <<"j","p","g">>, <<"j","p","g">>, None, None, b, None, <<>>,
         <<4, 2>>, None)

\* requested and intrinsic sizes
InitDims ==
  \/ \E w \in OptDims, h \in OptDims, z \in SvgSizes,
        f \in {<<"p","n","g">>, <<"j","p","e","g">>} :
       Pair(<<"A">>, f, f, w, h, None, None, <<>>, z, None)
  \/ \E w \in {None, Some(200)}, f \in {<<"p","n","g">>, <<"g","i","f">>} :
       Pair(<<"A">>, f, f, w, None, None, None, <<>>, <<200, 100>>, Some(Blue))

\* formats, against the other arguments
InitFormat ==
  \E f \in Formats, b \in {None, Some(Red), Some(BadColor), Some(SplitColor)},
     a \in {None, Some(<<"0","0","f","f","0","0">>), Some(<<"1","2","3","4","5">>)},
     w \in {None, Some(0), Some(2)}, h \in {None, Some(1)},
     t \in {<<"A">>, <<"X">>}, k \in {None, Some(Blue)} :
    Pair(t, f, f, w, h, b, a, <<>>, <<4, 2>>, k)

\* spellings of a format name, against the name itself
InitSpelling ==
  \E n \in FormatNames :
    \E f \in Spellings(n), b \in {None, Some(Red), Some(BadColor)},
       w \in {None, Some(0)}, t \in {<<"A">>, <<"X">>}, k \in {None, Some(Blue)} :
      Pair(t, f, n, w, None, b, b, <<>>, <<4, 2>>, k)

Init == InitText \/ InitColor \/ InitDims \/ InitFormat \/ InitSpelling

\* ------------------------------------------------------------ the actions
Substitute ==
  /\ call.pc = "substitute"
  /\ call' = SubstituteStep(call)
  /\ twin' = Advance(twin)

Parse ==
  /\ call.pc = "parse"
  /\ call' = ParseStep(call)
  /\ twin' = Advance(twin)

Dimensions ==
  /\ call.pc = "dimensions"
  /\ call' = DimensionsStep(call)
  /\ twin' = Advance(twin)

Allocate ==
  /\ call.pc = "allocate"
  /\ call' = AllocateStep(call)
  /\ twin' = Advance(twin)

Background ==
  /\ call.pc = "background"
  /\ call' = BackgroundStep(call)
  /\ twin' = Advance(twin)

RenderSvg ==
  /\ call.pc = "render"
  /\ call' = RenderStep(call)
  /\ twin' = Advance(twin)

Encode ==
  /\ call.pc = "encode"
  /\ call' = EncodeStep(call)
  /\ twin' = Advance(twin)

\* the twin runs on after the call has returned
TwinOnly ==
  /\ Ended(call)
  /\ ~Ended(twin)
  /\ twin' = Advance(twin)
  /\ UNCHANGED call

Next ==
  \/ Substitute
  \/ Parse
  \/ Dimensions
  \/ Allocate
  \/ Background
  \/ RenderSvg
  \/ Encode
  \/ TwinOnly

Spec == Init /\ [][Next]_vars

\* colour strings of one-byte characters only, everything else valid
AsciiColorStrings ==
  {s \in ColorStrings : \A i \in 1..Len(s) : s[i] # "U+00E9"}

InitAsciiColor ==
  \E s \in AsciiColorStrings :
    Pair(<<"A">>, <<"j","p","g">>, <<"j","p","g">>, None, None, Some(s), None,
         <<>>, <<4, 2>>, None)

SpecAsciiColor == InitAsciiColor /\ [][Next]_vars

\* every format, the other arguments such that every supported format
\* succeeds but for the colour of the call
InitValidFormat ==
  \E f \in UNION {Spellings(n) : n \in FormatNames \cup {<<"b","m","p">>}},
     b \in {None, Some(Red), Some(BadColor)},
     w \in {None, Some(2)}, k \in {None, Some(Blue)} :
    Pair(<<"A">>, f, f, w, None, b, None, <<>>, <<4, 2>>, k)

SpecValidFormat == InitValidFormat /\ [][Next]_vars

\* ------------------------------------------------------------- the claims
Ran(c, stage) == \E i \in 1..Len(c.stages) : c.stages[i] = stage

SameResult(a, b) ==
  /\ a.tag = b.tag
  /\ a.kind = b.kind
  /\ a.detail = b.detail
  /\ a.ok = b.ok

\* a format string that matches one of the five names, whatever its case
Supported(format) == \E n \in FormatNames : format \in Spellings(n)

IsSpellingOf(format, name) == format \in Spellings(name)

Lossy(format) ==
  \E n \in FormatNames \ {<<"p","n","g">>} : format \in Spellings(n)

\* pixel k (from 1) of an RGBA8 buffer
Pixel(data, k) ==
  <<data[4 * k - 3], data[4 * k - 2], data[4 * k - 1], data[4 * k]>>

AllPixels(pm, rgba) ==
  \A k \in 1..(pm.width * pm.height) : Pixel(pm.data, k) = rgba

\* C1: an unsupported format fails with the unsupported-format error naming
\* it, and no surface allocation, background fill or rendering came first
C1_UnsupportedFailsBeforeWork ==
  ~Supported(call.format) =>
    /\ ~Ran(call, "allocate") /\ ~Ran(call, "background") /\ ~Ran(call, "render")
    /\ Ended(call) =>
         /\ call.result.tag = "Err"
         /\ call.result.kind = "Unsupported format"
         /\ call.result.detail = call.format

\* what C2 says of a colour string: one optional '#', then exactly six hex
\* digits, read as three pairs
ClaimedBody(s) == IF s # <<>> /\ Head(s) = "#" THEN Tail(s) ELSE s

ClaimedValid(s) ==
  /\ Len(ClaimedBody(s)) = 6
  /\ \A i \in 1..6 : IsHexDigit(ClaimedBody(s)[i])

ClaimedRgb(s) ==
  [k \in 1..3 |-> 16 * HexVal(ClaimedBody(s)[2 * k - 1]) + HexVal(ClaimedBody(s)[2 * k])]

InvalidColor(res) ==
  /\ res.tag = "Err"
  /\ res.kind \in {"InvalidHexColorLength", "InvalidHexColorComponent"}

\* the background stage has acted on the caller's colour string
ColorParsed(c) ==
  /\ c.background_color # None
  /\ ~IsSpellingOf(c.format, <<"p","n","g">>)
  /\ \/ c.pc = "render"
     \/ Ended(c) /\ c.stages[Len(c.stages)] = "background"

\* C2: parse_hex_color succeeds exactly on one optional '#' and six hex
\* digits, with the three pairs as R, G, B; every other string is an
\* invalid-colour error
C2_HexColorContract ==
  ColorParsed(call) =>
    IF ClaimedValid(call.background_color[1])
    THEN /\ call.pc = "render"
         /\ \A k \in 1..3 :
              call.pixmap[1].data[k] = ClaimedRgb(call.background_color[1])[k]
    ELSE InvalidColor(call.result)

\* C3: no input makes a stage panic; the call ends with Ok or Err
C3_NeverPanics ==
  /\ call.pc # "panicked"
  /\ Ended(call) => call.result.tag \in {"Ok", "Err"}

\* the dimensions C4 states, in exact arithmetic (sizes are in half pixels)
ExactDimensions(width, height, size) ==
  IF width # None /\ height # None THEN <<width[1], height[1]>>
  ELSE IF width # None THEN <<width[1], (width[1] * size[2]) \div size[1]>>
  ELSE IF height # None THEN <<(height[1] * size[1]) \div size[2], height[1]>>
  ELSE <<size[1] \div 2, size[2] \div 2>>

Resolved(c) == Ran(c, "dimensions")

\* C4 as stated: the resolved dimensions are those of exact arithmetic
C4_ExactTruncation ==
  Resolved(call) =>
    <<call.out_width, call.out_height>>
      = ExactDimensions(call.width, call.height, call.doc_size)

\* the derived dimension d against the exact quotient num / den: the
\* truncated quotient, or one less, and only where the quotient is whole
NearExact(d, num, den) ==
  /\ d \in {num \div den, (num \div den) - 1}
  /\ d >= 0
  /\ num % den # 0 => d = num \div den

\* C4 as amended: explicit and intrinsic dimensions are as stated; a derived
\* dimension is the truncated single-precision product, which is the exact
\* truncation or one below it where w * ih / iw is a whole number
C4_FloatTruncation ==
  Resolved(call) =>
    LET w == call.width
        h == call.height
        z == call.doc_size
    IN /\ w # None /\ h # None => call.out_width = w[1] /\ call.out_height = h[1]
       /\ w # None /\ h = None =>
            /\ call.out_width = w[1]
            /\ NearExact(call.out_height, w[1] * z[2], z[1])
       /\ w = None /\ h # None =>
            /\ call.out_height = h[1]
            /\ NearExact(call.out_width, h[1] * z[1], z[2])
       /\ w = None /\ h = None =>
            call.out_width = z[1] \div 2 /\ call.out_height = z[2] \div 2
       /\ z = <<200, 100>> /\ w = Some(200) /\ h = None =>
            call.out_width = 200 /\ call.out_height = 100
       /\ z = <<200, 100>> /\ w = None /\ h = None =>
            call.out_width = 100 /\ call.out_height = 50
       /\ z = <<22, 26>> /\ w = Some(11) /\ h = None => call.out_height = 12

C4_Witness ==
  /\ Resolved(call)
  /\ call.doc_size = <<22, 26>>
  /\ call.width = Some(11)
  /\ call.height = None
  /\ call.out_height = 12

RECURSIVE FoldReplace(_, _)
\* the left-to-right fold of replace-all over a list of pairs
FoldReplace(text, pairs) ==
  IF pairs = <<>> THEN text
  ELSE FoldReplace(StrReplace(text, pairs[1][1], pairs[1][2]), Tail(pairs))

\* C5: the pairs are applied in order, each to the text the earlier ones
\* produced and to every occurrence, so the parsed text is the fold
C5_SequentialSubstitution ==
  /\ call.processed_svg
       = FoldReplace(call.svg_data, SubSeq(call.replacements, 1, call.repl_idx))
  /\ Ran(call, "substitution") =>
       /\ call.repl_idx = Len(call.replacements)
       /\ call.processed_svg = FoldReplace(call.svg_data, call.replacements)
       /\ call.svg_data = <<"A"," ","B">>
            /\ call.replacements = << << <<"A">>, <<"B">> >>, << <<"B">>, <<"C">> >> >>
            => call.processed_svg = <<"C"," ","C">>
       /\ call.svg_data = <<"A","B","A">>
            /\ call.replacements = << << <<"A">>, <<"B">> >> >>
            => call.processed_svg = <<"B","B","B">>
  /\ call.result.kind = "ParseError" => call.result.detail = call.processed_svg

C5_Witness ==
  /\ Ran(call, "parse")
  /\ call.svg_data = <<"A"," ","B">>
  /\ call.replacements = << << <<"A">>, <<"B">> >>, << <<"B">>, <<"C">> >> >>
  /\ call.processed_svg = <<"C"," ","C">>

\* C6: for JPEG, GIF and WebP the whole surface is opaque, in the caller's
\* colour or white, before the content is rendered; an empty document with
\* no colour given reaches the encoder as opaque white
C6_OpaqueBackground ==
  Lossy(call.format) =>
    /\ Ran(call, "render") => Ran(call, "background")
    /\ call.pc = "render" =>
         /\ call.stages[Len(call.stages)] = "background"
         /\ \A k \in 1..(call.out_width * call.out_height) :
              Pixel(call.pixmap[1].data, k)[4] = 255
         /\ call.background_color = None =>
              AllPixels(call.pixmap[1], <<255, 255, 255, 255>>)
         /\ call.background_color = Some(Red) =>
              AllPixels(call.pixmap[1], <<255, 0, 0, 255>>)
         /\ call.background_color # None =>
              AllPixels(call.pixmap[1],
                        parse_hex_color(call.background_color[1]).ok[1] \o <<255>>)
    /\ call.pc = "encode" /\ call.doc_content = None /\ call.background_color = None =>
         AllPixels(call.pixmap[1], <<255, 255, 255, 255>>)

C6_Witness ==
  /\ call.pc = "encode"
  /\ IsSpellingOf(call.format, <<"j","p","g">>)
  /\ call.doc_content = None
  /\ call.background_color = None
  /\ AllPixels(call.pixmap[1], <<255, 255, 255, 255>>)

\* C7: a resolved width or height of 0 is not rejected by the resolver; the
\* allocation fails and the call returns that error and no bytes
C7_ZeroDimensionFails ==
  Resolved(call) /\ (call.out_width = 0 \/ call.out_height = 0) =>
    /\ call.pc \in {"allocate", "done"}
    /\ call.pc = "allocate" => call.result = Pending
    /\ call.pc = "done" =>
         /\ call.stages[Len(call.stages)] = "allocate"
         /\ call.result.tag = "Err"
         /\ call.result.kind = "Failed to create pixmap"
         /\ call.result.ok = None
    /\ call.pixmap = None

C7_Witness ==
  /\ call.pc = "done"
  /\ call.width = Some(1)
  /\ call.height = None
  /\ call.doc_size = <<4, 1>>
  /\ call.out_height = 0
  /\ call.result.kind = "Failed to create pixmap"

StageOrder ==
  <<"substitution", "parse", "dimensions", "allocate", "background", "render",
    "encode">>

StageIndex(stage) == CHOOSE i \in 1..Len(StageOrder) : StageOrder[i] = stage

\* the error kinds a stage returns
StageErrors(stage) ==
  CASE stage = "parse" -> {"ParseError"}
    [] stage = "allocate" -> {"Failed to create pixmap"}
    [] stage = "background" -> {"InvalidHexColorLength", "InvalidHexColorComponent"}
    [] stage = "encode" -> {"Unsupported format", "Failed to create image buffer"}
    [] OTHER -> {}

\* C8: the stages run in the fixed order; the first one that fails ends the
\* call with its error and nothing runs after it; bytes never come with an
\* error
C8_FixedOrderShortCircuit ==
  /\ \A i, j \in 1..Len(call.stages) :
       i < j => StageIndex(call.stages[i]) < StageIndex(call.stages[j])
  /\ Ended(call) =>
       /\ call.result.tag \in {"Ok", "Err"}
       /\ call.result.tag = "Ok" => call.stages[Len(call.stages)] = "encode"
       /\ call.result.tag = "Err" =>
            /\ call.result.ok = None
            /\ call.result.kind \in StageErrors(call.stages[Len(call.stages)])
  /\ ~Ended(call) => call.result = Pending

\* the encoder a format name stands for
CodecOf(name) ==
  CASE name = <<"p","n","g">> -> "png"
    [] name \in {<<"j","p","g">>, <<"j","p","e","g">>} -> "jpeg90"
    [] name = <<"g","i","f">> -> "gif"
    [] name = <<"w","e","b","p">> -> "webp"

\* C9: the fill is skipped exactly when the encoder branch is PNG, and every
\* spelling of a format name behaves as the name itself; jpg and jpeg share
\* a branch
C9_OneNormalisedFormat ==
  /\ call.pc \in {"render", "encode"} =>
       /\ call.is_png = ~Ran(call, "background")
       /\ call.is_png = IsSpellingOf(call.format, <<"p","n","g">>)
  /\ call.result.tag = "Ok" =>
       /\ (call.result.ok[1].codec = "png") = ~Ran(call, "background")
       /\ \A n \in FormatNames :
            IsSpellingOf(call.format, n) => call.result.ok[1].codec = CodecOf(n)
  /\ call.result.kind = "Unsupported format" => ~Supported(call.format)
  /\ twin.background_color = call.background_color
       /\ IsSpellingOf(call.format, twin.format) =>
       /\ call.pc = twin.pc
       /\ call.stages = twin.stages
       /\ call.pixmap = twin.pixmap
       /\ SameResult(call.result, twin.result)

C9_Witness ==
  /\ call.format = <<"J","p","G">>
  /\ twin.format = <<"j","p","g">>
  /\ call.background_color = Some(Red)
  /\ call.result.tag = "Ok"
  /\ call.result.ok[1].codec = "jpeg90"
  /\ SameResult(call.result, twin.result)

\* C10: for PNG the colour argument is never parsed and changes nothing:
\* the surface is transparent before rendering, and two calls that differ
\* only in background_color return the same result
C10_PngIgnoresBackground ==
  IsSpellingOf(call.format, <<"p","n","g">>) =>
    /\ ~Ran(call, "background")
    /\ ~InvalidColor(call.result)
    /\ call.pc # "panicked"
    /\ call.pc = "render" => AllPixels(call.pixmap[1], <<0, 0, 0, 0>>)
    /\ twin.format = call.format =>
         /\ call.pc = twin.pc
         /\ call.pixmap = twin.pixmap
         /\ SameResult(call.result, twin.result)

C10_Witness ==
  /\ call.format = <<"P","N","g">>
  /\ twin.format = call.format
  /\ call.background_color = Some(BadColor)
  /\ twin.background_color = None
  /\ call.result.tag = "Ok"
  /\ SameResult(call.result, twin.result)

====
